---- MODULE Spec2Model ----
(***************************************************************************)
(* Chat orchestration and session persistence of AITextGenie.              *)
(*                                                                         *)
(* The durable store (identities, models, sessions, messages, settings)    *)
(* is the shared state.  Every HTTP request is handled by a request        *)
(* handler that runs from one await to the next; the handlers of           *)
(* different requests interleave at their awaits.  req[p] is the request   *)
(* that connection p is running and the position of its handler.           *)
(***************************************************************************)
EXTENDS Integers, Sequences, FiniteSets, TLC

VARIABLES users, models, apiKey, sessions, messages, nextSid, nextTurn, req, ui, settings

vars == <<users, models, apiKey, sessions, messages, nextSid, nextTurn, req, ui, settings>>

(* ------------------------------ bounds -------------------------------- *)

\* Requests served in one behaviour.
MaxRequests == 2
\* Conversations one chat interface starts in one behaviour.
MaxChats == 2
\* Session rows ever created in one behaviour.
MaxSessions == 2
\* Message rows ever created in one behaviour.
MaxMessages == 4

(* ------------------------------ domains ------------------------------- *)

\* Connections whose handlers may be in flight at the same time.
Procs == {1, 2}

UserIds == {"u1", "u2"}
NoUser == "nouser"

ModelIds == {"m1", "m2"}
NoModel == "nomodel"

\* A sessionId that is absent from the body (undefined / null).
NoSession == 0
SessionIds == 1..MaxSessions
\* A well-formed session id that names no row, now or later.
UnknownSession == MaxSessions + 1

\* The value of the openrouter_api_key setting: no row, an empty value, a key.
NoSetting == "<no row>"
SettingValues == {NoSetting, "", "sk-or"}

\* The Authorization header of a request.  "none": no header; "basic": a
\* header that does not start with 'Bearer '; "bad": a bearer token the
\* identity provider rejects; "throws": the verification call itself fails;
\* a user id: a valid bearer token of that user.
Headers == {"none", "basic", "bad", "throws"} \cup UserIds

\* The message texts a client sends ("" is a missing message).
Texts == {"", "Hi"}

\* What the completion endpoint does with one call.
ProviderOutcomes == {"ok", "httpError", "empty", "network"}

(* --------------------------- pure functions --------------------------- *)

\* String.prototype.slice(0, n)
Slice(s, n) == IF Len(s) > n THEN SubSeq(s, 1, n) ELSE s

TitleLen == 50

\* Title with the ellipsis added from the limit on, not beyond it.
TitleEllipsisAtLimit(message) ==
    Slice(message, TitleLen) \o (IF Len(message) >= TitleLen THEN "..." ELSE "")

\* The title of a session created by a chat request.
Title(message) ==
    Slice(message, TitleLen) \o (IF Len(message) > TitleLen THEN "..." ELSE "")

\* The user a header resolves to at the identity provider.
TokenUser(h) == IF h \in UserIds THEN h ELSE NoUser

\* The email the identity provider reports for a user.
TokenEmail(u) == u \o "@new"

\* The row isAuthenticated hands to upsertUser for the user of a token.
UserData(u) == [id |-> u, email |-> TokenEmail(u)]

(* ------------------------------ storage ------------------------------- *)

\* SELECT ... FROM chat_messages WHERE session_id = sid ORDER BY created_at
getMessagesBySessionId(sid) == SelectSeq(messages, LAMBDA m : m.sessionId = sid)

\* The ids of the rows of chat_sessions.
SessionRows == {s.id : s \in sessions}

\* SELECT ... FROM chat_sessions WHERE id = sid (the rows found: none or one)
getChatSessionById(sid) == {s \in sessions : s.id = sid}

\* SELECT ... FROM chat_sessions WHERE user_id = u
getChatSessionsByUserId(u) == {s \in sessions : s.userId = u}

\* The column default of users.role.
DefaultRole == "user"

\* SELECT ... FROM users WHERE id = u (the rows found)
getUser(u) == {row \in users : row.id = u}

\* upsertUser writing the default role on conflict as well.
upsertUserResetsRole(userData) ==
    {row \in users : row.id # userData.id}
        \cup {[id |-> userData.id, role |-> DefaultRole, email |-> userData.email]}

\* upsertUser as a plain insert: no ON CONFLICT clause.
upsertUserInsertOnly(userData) ==
    users \cup {[id |-> userData.id, role |-> DefaultRole, email |-> userData.email]}

\* INSERT INTO users VALUES (userData) ON CONFLICT (id) DO UPDATE SET
\* userData: a new row gets the default role; a row with that id takes the
\* fields of userData and keeps its role.
upsertUser(userData) ==
    IF \E row \in users : row.id = userData.id
    THEN {IF row.id = userData.id THEN [row EXCEPT !.email = userData.email] ELSE row :
            row \in users}
    ELSE users \cup {[id |-> userData.id, role |-> DefaultRole, email |-> userData.email]}

\* UPDATE users SET role = role WHERE id = userId
updateUserRole(userId, role) ==
    {IF row.id = userId THEN [row EXCEPT !.role = role] ELSE row : row \in users}

\* chat_messages.session_id references chat_sessions.id: an insert for a
\* session that has no row is refused.
MessageSessionFk(sid) == sid \in SessionRows

\* chat_sessions.user_id references users.id, chat_sessions.model_id
\* references ai_models.id.
SessionFks(u, m) == getUser(u) # {} /\ m \in models

\* ON DELETE CASCADE of chat_messages.session_id: the messages left when the
\* row of session sid is deleted.
CascadeMessages(sid) == SelectSeq(messages, LAMBDA m : m.sessionId # sid)

\* The {role, content} pairs sent to the provider.
AsContext(ms) == [i \in 1..Len(ms) |-> [role |-> ms[i].role, content |-> ms[i].content]]

(* ------------------------------ requests ------------------------------ *)

\* The identity row the store is seeded with: an administrator, whose email
\* has changed at the identity provider since the row was written.
AdminRow == [id |-> "u1", role |-> "admin", email |-> "u1@old"]

IdleReq ==
    [endpoint |-> "none", pc |-> "idle", turn |-> 0, known |-> 0,
     header |-> "none", user |-> NoUser,
     message |-> "", modelId |-> NoModel, sessionId |-> NoSession, isGuest |-> FALSE,
     chatSessionId |-> NoSession, context |-> <<>>, prior |-> <<>>, outcome |-> "none",
     log |-> <<>>, status |-> 0, body |-> <<>>, sent |-> 0]

\* The key of the provider credential in system_settings.
CredentialKey == "openrouter_api_key"

\* The keys of the other settings.
SettingKeys == {"default_model", "jwt_secret"}

\* The values a setting row can hold.
SettingTexts == SettingValues \ {NoSetting}

\* system_settings without a row besides the credential's.
NoSettings == [k \in SettingKeys |-> NoSetting]

\* The chat interface as it is mounted: useState(null) for currentSession, no
\* send in flight; chats counts the conversations it has started.
UiIdle == [currentSession |-> NoSession, isPending |-> FALSE, chats |-> 1]

Init ==
    /\ users = {AdminRow}
    /\ models = {"m1"}
    /\ apiKey \in SettingValues
    /\ sessions = {}
    /\ messages = <<>>
    /\ nextSid = 1
    /\ nextTurn = 1
    /\ ui = UiIdle
    /\ settings = NoSettings
    /\ req = [p \in Procs |-> IdleReq]

\* res.status(s).json(b): the handler ends.
Respond(r, s, b) ==
    [r EXCEPT !.pc = "done", !.status = s, !.body = b, !.sent = r.sent + 1]

Logged(r, e) == [r EXCEPT !.log = Append(r.log, e)]

ErrorBody(text) == [message |-> text]

\* The response is the last statement of a handler: the connection is free
\* again before any other handler runs.
Responding == \E q \in Procs : req[q].pc = "done"

\* The handler of connection p, serving endpoint e, resumes at position pc.
Resumes(p, e, pc) ==
    /\ ~Responding
    /\ req[p].endpoint = e
    /\ req[p].pc = pc

\* Connection p can take a request: a request goes to the first idle
\* connection (the connections are interchangeable).
Accepts(p) ==
    /\ ~Responding
    /\ req[p].pc = "idle"
    /\ nextTurn <= MaxRequests
    /\ \A q \in Procs : req[q].pc = "idle" => ~(q < p)

\* The session ids a client can put in request r: the ids handed out before
\* it was sent (of rows that exist or were deleted) and an id that names no
\* row.
KnownIds(r) == (1..(r.known - 1)) \cup {UnknownSession}

(* ----------------------- POST /api/chat/message ----------------------- *)

\* The text of the provider's first choice.
ReplyText == "Hello!"

\* The total_tokens the provider reports for it.
ReplyTokens == 7

UserTurn(r) == [role |-> "user", content |-> r.message]

\* The persistence branch: if (!isGuest && req.user?.id)
Persists(r) == ~r.isGuest /\ r.user # NoUser

\* The message list of the provider call: the new message alone, or, when
\* chatSessionId is set, the stored messages of that session with the new
\* message pushed after them.
Assemble(r, stored) ==
    IF r.chatSessionId # NoSession
    THEN Append(AsContext(stored), UserTurn(r))
    ELSE <<UserTurn(r)>>

\* The assistant-message branch: if (!isGuest && chatSessionId)
SavesAssistant(r) == ~r.isGuest /\ r.chatSessionId # NoSession

\* A client sends POST /api/chat/message.  The handler looks at the header
\* first; the body is drawn where the handler reads it (ChatResolve).
ChatBegin(p) ==
    /\ Accepts(p)
    /\ \E h \in Headers \ {"basic"} :
         req' = [req EXCEPT ![p] =
                    [IdleReq EXCEPT !.endpoint = "chat",
                                    !.pc = IF h = "none" THEN "resolve" ELSE "auth",
                                    !.turn = nextTurn, !.known = nextSid, !.header = h]]
    /\ nextTurn' = nextTurn + 1
    /\ UNCHANGED <<users, models, apiKey, sessions, messages, nextSid, ui, settings>>

\* authenticateToken(header): the user of a valid token, whose identity row
\* it upserts; nothing for a rejected token; or it throws.
authenticateToken(h) ==
    [throws |-> h = "throws",
     user |-> TokenUser(h),
     users |-> IF h \in UserIds THEN upsertUser(UserData(h)) ELSE users]

\* The optional authentication: req.user is set when authenticateToken
\* returns a user; a verification that throws is caught and logged.
ChatAuth(p) ==
    LET r == req[p]
        a == authenticateToken(r.header)
    IN
    /\ Resumes(p, "chat", "auth")
    /\ req' = [req EXCEPT ![p] =
                 [r EXCEPT !.pc = "resolve",
                           !.user = IF a.throws THEN NoUser ELSE a.user]]
    /\ users' = IF a.throws THEN users ELSE a.users
    /\ UNCHANGED <<models, apiKey, sessions, messages, nextSid, nextTurn, ui, settings>>

\* AfterResolve creating a session whether or not the body names one.
AfterResolveAlwaysCreates(r) ==
    IF Persists(r)
    THEN [r EXCEPT !.chatSessionId = r.sessionId, !.pc = "createSession"]
    ELSE [r EXCEPT !.chatSessionId = r.sessionId, !.pc = "history"]

\* The position after the model was found.
AfterResolve(r) ==
    IF Persists(r)
    THEN [r EXCEPT !.chatSessionId = r.sessionId,
                   !.pc = IF r.sessionId = NoSession THEN "createSession" ELSE "saveUser"]
    ELSE [r EXCEPT !.chatSessionId = r.sessionId, !.pc = "history"]

\* Resolve without the lookup of the model row.
ResolveNoModelCheck(r) ==
    IF r.message = "" \/ r.modelId = NoModel
    THEN Respond(r, 400, ErrorBody("Message and model ID are required"))
    ELSE IF apiKey \in {NoSetting, ""}
    THEN Respond(r, 500, ErrorBody("OpenRouter API key not configured"))
    ELSE AfterResolve(r)

\* Resolve without the check of the api key setting.
ResolveNoKeyCheck(r) ==
    IF r.message = "" \/ r.modelId = NoModel
    THEN Respond(r, 400, ErrorBody("Message and model ID are required"))
    ELSE IF r.modelId \notin models
    THEN Respond(r, 404, ErrorBody("Model not found"))
    ELSE AfterResolve(r)

\* The answer to a body: validation, the api key setting, the model row.
Resolve(r) ==
    IF r.message = "" \/ r.modelId = NoModel
    THEN Respond(r, 400, ErrorBody("Message and model ID are required"))
    ELSE IF apiKey \in {NoSetting, ""}
    THEN Respond(r, 500, ErrorBody("OpenRouter API key not configured"))
    ELSE IF r.modelId \notin models
    THEN Respond(r, 404, ErrorBody("Model not found"))
    ELSE AfterResolve(r)

\* const { message, modelId, sessionId, isGuest } = req.body, and the checks
\* that follow.
ChatResolve(p) ==
    LET r == req[p] IN
    /\ Resumes(p, "chat", "resolve")
    /\ \E msg \in Texts, mid \in ModelIds \cup {NoModel},
          sid \in {NoSession} \cup KnownIds(r), g \in BOOLEAN :
         req' = [req EXCEPT ![p] =
                   Resolve([r EXCEPT !.message = msg, !.modelId = mid,
                                     !.sessionId = sid, !.isGuest = g])]
    /\ UNCHANGED <<users, models, apiKey, sessions, messages, nextSid, nextTurn, ui, settings>>

\* storage.createChatSession for a request without sessionId.
ChatCreateSession(p) ==
    LET r == req[p] IN
    /\ Resumes(p, "chat", "createSession")
    /\ nextSid <= MaxSessions
    /\ IF ~SessionFks(r.user, r.modelId)
       THEN /\ req' = [req EXCEPT ![p] =
                         Respond(r, 500, ErrorBody("Failed to process message"))]
            /\ UNCHANGED <<sessions, nextSid>>
       ELSE /\ sessions' = sessions \cup
                  {[id |-> nextSid, userId |-> r.user, title |-> Title(r.message),
                    modelId |-> r.modelId]}
            /\ nextSid' = nextSid + 1
            /\ req' = [req EXCEPT ![p] =
                         Logged([r EXCEPT !.chatSessionId = nextSid, !.pc = "saveUser"],
                                "createSession")]
    /\ UNCHANGED <<users, models, apiKey, messages, nextTurn, ui, settings>>

\* ChatSaveUser skipping the insert when the session ends with the same
\* user message (taken for a double submit).
ChatSaveUserDedup(p) ==
    LET r == req[p]
        ms == getMessagesBySessionId(r.chatSessionId)
        same == /\ ms # <<>>
                /\ ms[Len(ms)].role = "user"
                /\ ms[Len(ms)].content = r.message
    IN
    /\ Resumes(p, "chat", "saveUser")
    /\ IF ~MessageSessionFk(r.chatSessionId)
       THEN /\ req' = [req EXCEPT ![p] =
                         Respond(r, 500, ErrorBody("Failed to process message"))]
            /\ UNCHANGED messages
       ELSE /\ Len(messages) < MaxMessages
            /\ messages' = IF same THEN messages
                           ELSE Append(messages,
                                  [sessionId |-> r.chatSessionId, role |-> "user",
                                   content |-> r.message, turn |-> r.turn])
            /\ req' = [req EXCEPT ![p] =
                         Logged([r EXCEPT !.pc = "history",
                                          !.prior = getMessagesBySessionId(r.chatSessionId)],
                                "appendUser")]
    /\ UNCHANGED <<users, models, apiKey, sessions, nextSid, nextTurn, ui, settings>>

\* ChatSaveUser replacing an unanswered user message at the end of the
\* session (left by a failed turn) instead of appending after it.
ChatSaveUserReplacesUnanswered(p) ==
    LET r == req[p]
        n == Len(messages)
        kept == IF /\ n > 0
                   /\ messages[n].sessionId = r.chatSessionId
                   /\ messages[n].role = "user"
                THEN SubSeq(messages, 1, n - 1)
                ELSE messages
    IN
    /\ Resumes(p, "chat", "saveUser")
    /\ IF ~MessageSessionFk(r.chatSessionId)
       THEN /\ req' = [req EXCEPT ![p] =
                         Respond(r, 500, ErrorBody("Failed to process message"))]
            /\ UNCHANGED messages
       ELSE /\ Len(messages) < MaxMessages
            /\ messages' = Append(kept,
                  [sessionId |-> r.chatSessionId, role |-> "user",
                   content |-> r.message, turn |-> r.turn])
            /\ req' = [req EXCEPT ![p] =
                         Logged([r EXCEPT !.pc = "history",
                                          !.prior = getMessagesBySessionId(r.chatSessionId)],
                                "appendUser")]
    /\ UNCHANGED <<users, models, apiKey, sessions, nextSid, nextTurn, ui, settings>>

\* storage.createChatMessage of the user's message.
ChatSaveUser(p) ==
    LET r == req[p] IN
    /\ Resumes(p, "chat", "saveUser")
    /\ IF ~MessageSessionFk(r.chatSessionId)
       THEN /\ req' = [req EXCEPT ![p] =
                         Respond(r, 500, ErrorBody("Failed to process message"))]
            /\ UNCHANGED messages
       ELSE /\ Len(messages) < MaxMessages
            /\ messages' = Append(messages,
                  [sessionId |-> r.chatSessionId, role |-> "user",
                   content |-> r.message, turn |-> r.turn])
            /\ req' = [req EXCEPT ![p] =
                         Logged([r EXCEPT !.pc = "history",
                                          !.prior = getMessagesBySessionId(r.chatSessionId)],
                                "appendUser")]
    /\ UNCHANGED <<users, models, apiKey, sessions, nextSid, nextTurn, ui, settings>>

\* The chat history is read and the provider call is issued with it.
ChatHistory(p) ==
    LET r == req[p] IN
    /\ Resumes(p, "chat", "history")
    /\ req' = [req EXCEPT ![p] =
                 Logged([r EXCEPT !.pc = "provider",
                                  !.context = Assemble(r, getMessagesBySessionId(r.chatSessionId))],
                        "provider")]
    /\ UNCHANGED <<users, models, apiKey, sessions, messages, nextSid, nextTurn, ui, settings>>

ChatBody(r) ==
    [content |-> ReplyText, sessionId |-> r.chatSessionId, tokenCount |-> ReplyTokens]

\* ChatProvider with a compensating delete: a failed provider call removes
\* the messages this request stored.
ChatProviderCompensating(p) ==
    LET r == req[p] IN
    /\ Resumes(p, "chat", "provider")
    /\ \E o \in ProviderOutcomes :
         LET ro == [r EXCEPT !.outcome = o] IN
         /\ req' = [req EXCEPT ![p] =
                     IF o # "ok"
                     THEN Respond(ro, 500, ErrorBody("Failed to process message"))
                     ELSE IF SavesAssistant(r)
                     THEN [ro EXCEPT !.pc = "saveAssistant"]
                     ELSE Respond(ro, 200, ChatBody(r))]
         /\ messages' = IF o # "ok"
                        THEN SelectSeq(messages, LAMBDA m : m.turn # r.turn)
                        ELSE messages
    /\ UNCHANGED <<users, models, apiKey, sessions, nextSid, nextTurn, ui, settings>>

\* ChatProvider whose handler never answers after a network failure.
ChatProviderHangs(p) ==
    LET r == req[p] IN
    /\ Resumes(p, "chat", "provider")
    /\ \E o \in ProviderOutcomes :
         LET ro == [r EXCEPT !.outcome = o] IN
         req' = [req EXCEPT ![p] =
                   IF o = "network"
                   THEN [ro EXCEPT !.pc = "hung"]
                   ELSE IF o # "ok"
                   THEN Respond(ro, 500, ErrorBody("Failed to process message"))
                   ELSE IF SavesAssistant(r)
                   THEN [ro EXCEPT !.pc = "saveAssistant"]
                   ELSE Respond(ro, 200, ChatBody(r))]
    /\ UNCHANGED <<users, models, apiKey, sessions, messages, nextSid, nextTurn, ui, settings>>

\* ChatProvider answering a response without choices with empty content.
ChatProviderEmptyReply(p) ==
    LET r == req[p] IN
    /\ Resumes(p, "chat", "provider")
    /\ \E o \in ProviderOutcomes :
         LET ro == [r EXCEPT !.outcome = o] IN
         req' = [req EXCEPT ![p] =
                   IF o = "empty"
                   THEN Respond(ro, 200, [ChatBody(r) EXCEPT !.content = ""])
                   ELSE IF o # "ok"
                   THEN Respond(ro, 500, ErrorBody("Failed to process message"))
                   ELSE IF SavesAssistant(r)
                   THEN [ro EXCEPT !.pc = "saveAssistant"]
                   ELSE Respond(ro, 200, ChatBody(r))]
    /\ UNCHANGED <<users, models, apiKey, sessions, messages, nextSid, nextTurn, ui, settings>>

\* ChatProvider calling the provider again after a network failure.
ChatProviderRetries(p) ==
    LET r == req[p] IN
    /\ Resumes(p, "chat", "provider")
    /\ \E o \in ProviderOutcomes :
         LET ro == [r EXCEPT !.outcome = o] IN
         req' = [req EXCEPT ![p] =
                   IF o = "network" /\ r.outcome = "none"
                   THEN Logged(ro, "provider")
                   ELSE IF o # "ok"
                   THEN Respond(ro, 500, ErrorBody("Failed to process message"))
                   ELSE IF SavesAssistant(r)
                   THEN [ro EXCEPT !.pc = "saveAssistant"]
                   ELSE Respond(ro, 200, ChatBody(r))]
    /\ UNCHANGED <<users, models, apiKey, sessions, messages, nextSid, nextTurn, ui, settings>>

\* ChatProvider taking a response without choices for a reply.
ChatProviderEmptyOk(p) ==
    LET r == req[p] IN
    /\ Resumes(p, "chat", "provider")
    /\ \E o \in ProviderOutcomes :
         LET ro == [r EXCEPT !.outcome = o] IN
         req' = [req EXCEPT ![p] =
                   IF o \notin {"ok", "empty"}
                   THEN Respond(ro, 500, ErrorBody("Failed to process message"))
                   ELSE IF SavesAssistant(r)
                   THEN [ro EXCEPT !.pc = "saveAssistant"]
                   ELSE Respond(ro, 200, ChatBody(r))]
    /\ UNCHANGED <<users, models, apiKey, sessions, messages, nextSid, nextTurn, ui, settings>>

\* createChatCompletion returns or throws.
ChatProvider(p) ==
    LET r == req[p] IN
    /\ Resumes(p, "chat", "provider")
    /\ \E o \in ProviderOutcomes :
         LET ro == [r EXCEPT !.outcome = o] IN
         req' = [req EXCEPT ![p] =
                   IF o # "ok"
                   THEN Respond(ro, 500, ErrorBody("Failed to process message"))
                   ELSE IF SavesAssistant(r)
                   THEN [ro EXCEPT !.pc = "saveAssistant"]
                   ELSE Respond(ro, 200, ChatBody(r))]
    /\ UNCHANGED <<users, models, apiKey, sessions, messages, nextSid, nextTurn, ui, settings>>

\* ChatSaveAssistant storing the reply twice.
ChatSaveAssistantTwice(p) ==
    LET r == req[p]
        reply == [sessionId |-> r.chatSessionId, role |-> "assistant",
                  content |-> ReplyText, turn |-> r.turn]
    IN
    /\ Resumes(p, "chat", "saveAssistant")
    /\ IF ~MessageSessionFk(r.chatSessionId)
       THEN /\ req' = [req EXCEPT ![p] =
                         Respond(r, 500, ErrorBody("Failed to process message"))]
            /\ UNCHANGED messages
       ELSE /\ Len(messages) + 1 < MaxMessages
            /\ messages' = Append(Append(messages, reply), reply)
            /\ req' = [req EXCEPT ![p] =
                         Respond(Logged(r, "appendAssistant"), 200, ChatBody(r))]
    /\ UNCHANGED <<users, models, apiKey, sessions, nextSid, nextTurn, ui, settings>>

\* ChatSaveAssistant answering 200 although the insert of the reply failed.
ChatSaveAssistantSwallows(p) ==
    LET r == req[p] IN
    /\ Resumes(p, "chat", "saveAssistant")
    /\ IF ~MessageSessionFk(r.chatSessionId)
       THEN /\ req' = [req EXCEPT ![p] = Respond(r, 200, ChatBody(r))]
            /\ UNCHANGED messages
       ELSE /\ Len(messages) < MaxMessages
            /\ messages' = Append(messages,
                  [sessionId |-> r.chatSessionId, role |-> "assistant",
                   content |-> ReplyText, turn |-> r.turn])
            /\ req' = [req EXCEPT ![p] =
                         Respond(Logged(r, "appendAssistant"), 200, ChatBody(r))]
    /\ UNCHANGED <<users, models, apiKey, sessions, nextSid, nextTurn, ui, settings>>

\* storage.createChatMessage of the reply, then res.json.
ChatSaveAssistant(p) ==
    LET r == req[p] IN
    /\ Resumes(p, "chat", "saveAssistant")
    /\ IF ~MessageSessionFk(r.chatSessionId)
       THEN /\ req' = [req EXCEPT ![p] =
                         Respond(r, 500, ErrorBody("Failed to process message"))]
            /\ UNCHANGED messages
       ELSE /\ Len(messages) < MaxMessages
            /\ messages' = Append(messages,
                  [sessionId |-> r.chatSessionId, role |-> "assistant",
                   content |-> ReplyText, turn |-> r.turn])
            /\ req' = [req EXCEPT ![p] =
                         Respond(Logged(r, "appendAssistant"), 200, ChatBody(r))]
    /\ UNCHANGED <<users, models, apiKey, sessions, nextSid, nextTurn, ui, settings>>

\* The response has been sent; the connection is free again.
Retire(p) ==
    /\ req[p].pc = "done"
    /\ req' = [req EXCEPT ![p] = IdleReq]
    /\ UNCHANGED <<users, models, apiKey, sessions, messages, nextSid, nextTurn, ui, settings>>

(* ------------------- endpoints behind isAuthenticated ------------------ *)

Guarded == {"listSessions", "getSession", "getMessages", "deleteSession"}

\* The endpoints that are registered with isAuthenticated and isAdmin.
AdminOnly == {"deleteModel", "updateRole", "getSettings", "saveSetting"}

\* Where next() of isAuthenticated leads.
AfterAuthenticated(e) == IF e \in AdminOnly THEN "isAdmin" ELSE "handler"

\* A client calls an endpoint that is registered with isAuthenticated; the
\* middleware answers a missing or non-bearer header before any await.
GuardedBegin(p) ==
    /\ Accepts(p)
    /\ \E e \in Guarded, h \in Headers :
         LET r == [IdleReq EXCEPT !.endpoint = e, !.turn = nextTurn,
                                  !.known = nextSid, !.header = h]
         IN req' = [req EXCEPT ![p] =
                      IF h \in {"none", "basic"}
                      THEN Respond(r, 401, ErrorBody("Unauthorized - No token provided"))
                      ELSE [r EXCEPT !.pc = "verify"]]
    /\ nextTurn' = nextTurn + 1
    /\ UNCHANGED <<users, models, apiKey, sessions, messages, nextSid, ui, settings>>

\* isAuthenticated calling next() for a token the identity provider rejects.
isAuthenticatedOpen(p) ==
    LET r == req[p] IN
    /\ \E e \in Guarded \cup AdminOnly : Resumes(p, e, "verify")
    /\ IF r.header = "throws"
       THEN /\ req' = [req EXCEPT ![p] =
                         Respond(r, 500, ErrorBody("Authentication service error"))]
            /\ UNCHANGED users
       ELSE IF r.header \notin UserIds
       THEN /\ req' = [req EXCEPT ![p] =
                         Logged([r EXCEPT !.pc = AfterAuthenticated(r.endpoint)], "next")]
            /\ UNCHANGED users
       ELSE /\ req' = [req EXCEPT ![p] =
                         Logged([r EXCEPT !.user = r.header,
                                          !.pc = AfterAuthenticated(r.endpoint)], "next")]
            /\ users' = upsertUser(UserData(r.header))
    /\ UNCHANGED <<models, apiKey, sessions, messages, nextSid, nextTurn, ui, settings>>

\* The rest of isAuthenticated: supabase.auth.getUser(token), then
\* storage.upsertUser and next().
isAuthenticated(p) ==
    LET r == req[p] IN
    /\ \E e \in Guarded \cup AdminOnly : Resumes(p, e, "verify")
    /\ IF r.header = "throws"
       THEN /\ req' = [req EXCEPT ![p] =
                         Respond(r, 500, ErrorBody("Authentication service error"))]
            /\ UNCHANGED users
       ELSE IF r.header \notin UserIds
       THEN /\ req' = [req EXCEPT ![p] =
                         Respond(r, 401, ErrorBody("Unauthorized - Invalid token"))]
            /\ UNCHANGED users
       ELSE /\ req' = [req EXCEPT ![p] =
                         Logged([r EXCEPT !.user = r.header,
                                          !.pc = AfterAuthenticated(r.endpoint)], "next")]
            /\ users' = upsertUser(UserData(r.header))
    /\ UNCHANGED <<models, apiKey, sessions, messages, nextSid, nextTurn, ui, settings>>

\* GET /api/chat/sessions
GetSessions(p) ==
    LET r == req[p] IN
    /\ Resumes(p, "listSessions", "handler")
    /\ req' = [req EXCEPT ![p] =
                 Respond(r, 200, [sessions |-> getChatSessionsByUserId(r.user)])]
    /\ UNCHANGED <<users, models, apiKey, sessions, messages, nextSid, nextTurn, ui, settings>>

\* ReadAnswer without the ownership check.
ReadAnswerNoOwnerCheck(r, found, okBody) ==
    IF found = {}
    THEN Respond(r, 404, ErrorBody("Chat session not found"))
    ELSE Respond(r, 200, okBody)

\* The answer of the two read handlers once the session row was looked up.
ReadAnswer(r, found, okBody) ==
    IF found = {}
    THEN Respond(r, 404, ErrorBody("Chat session not found"))
    ELSE IF \E s \in found : s.userId # r.user
    THEN Respond(r, 403, ErrorBody("Access denied"))
    ELSE Respond(r, 200, okBody)

\* GET /api/chat/sessions/:id
GetSession(p) ==
    /\ Resumes(p, "getSession", "handler")
    /\ \E sid \in KnownIds(req[p]) :
         LET r == [req[p] EXCEPT !.sessionId = sid] IN
         req' = [req EXCEPT ![p] =
                   ReadAnswer(r, getChatSessionById(sid),
                              [sessions |-> getChatSessionById(sid),
                               messages |-> getMessagesBySessionId(sid)])]
    /\ UNCHANGED <<users, models, apiKey, sessions, messages, nextSid, nextTurn, ui, settings>>

\* GET /api/chat/sessions/:id/messages
GetSessionMessages(p) ==
    /\ Resumes(p, "getMessages", "handler")
    /\ \E sid \in KnownIds(req[p]) :
         LET r == [req[p] EXCEPT !.sessionId = sid] IN
         req' = [req EXCEPT ![p] =
                   ReadAnswer(r, getChatSessionById(sid),
                              [sessions |-> {[title |-> s.title, modelId |-> s.modelId] :
                                               s \in getChatSessionById(sid)},
                               messages |-> getMessagesBySessionId(sid)])]
    /\ UNCHANGED <<users, models, apiKey, sessions, messages, nextSid, nextTurn, ui, settings>>

\* DELETE /api/chat/sessions/:id, the ownership check.
DeleteSessionCheckNotFound(p) ==
    /\ Resumes(p, "deleteSession", "handler")
    /\ \E sid \in KnownIds(req[p]) :
         LET r == [req[p] EXCEPT !.sessionId = sid]
             found == getChatSessionById(sid)
         IN req' = [req EXCEPT ![p] =
                      IF found = {}
                      THEN Respond(r, 404, ErrorBody("Chat session not found"))
                      ELSE IF \E s \in found : s.userId # r.user
                      THEN Respond(r, 403, ErrorBody("Access denied"))
                      ELSE [r EXCEPT !.pc = "delete"]]
    /\ UNCHANGED <<users, models, apiKey, sessions, messages, nextSid, nextTurn, ui, settings>>

\* DELETE /api/chat/sessions/:id, the ownership check.
DeleteSessionCheck(p) ==
    /\ Resumes(p, "deleteSession", "handler")
    /\ \E sid \in KnownIds(req[p]) :
         LET r == [req[p] EXCEPT !.sessionId = sid]
             found == getChatSessionById(sid)
         IN req' = [req EXCEPT ![p] =
                      IF found = {} \/ \E s \in found : s.userId # r.user
                      THEN Respond(r, 403, ErrorBody("Access denied"))
                      ELSE [r EXCEPT !.pc = "delete"]]
    /\ UNCHANGED <<users, models, apiKey, sessions, messages, nextSid, nextTurn, ui, settings>>

\* DELETE FROM chat_sessions WHERE id = sid; the messages of the session go
\* with it.
deleteChatSession(sid) ==
    /\ sessions' = {s \in sessions : s.id # sid}
    /\ messages' = CascadeMessages(sid)

\* DeleteSessionExec calling deleteMessagesBySessionId in place of
\* deleteChatSession: the messages go, the session row stays.
DeleteSessionExecMessagesOnly(p) ==
    LET r == req[p] IN
    /\ Resumes(p, "deleteSession", "delete")
    /\ messages' = SelectSeq(messages, LAMBDA m : m.sessionId # r.sessionId)
    /\ req' = [req EXCEPT ![p] =
                 IF getMessagesBySessionId(r.sessionId) # <<>>
                 THEN Respond(Logged(r, "deleteSession"), 200, [success |-> TRUE])
                 ELSE Respond(r, 404, ErrorBody("Chat session not found"))]
    /\ UNCHANGED <<users, models, apiKey, sessions, nextSid, nextTurn, ui, settings>>

\* DELETE /api/chat/sessions/:id, the deletion.
DeleteSessionExec(p) ==
    LET r == req[p] IN
    /\ Resumes(p, "deleteSession", "delete")
    /\ deleteChatSession(r.sessionId)
    /\ req' = [req EXCEPT ![p] =
                 IF r.sessionId \in SessionRows
                 THEN Respond(Logged(r, "deleteSession"), 200, [success |-> TRUE])
                 ELSE Respond(r, 404, ErrorBody("Chat session not found"))]
    /\ UNCHANGED <<users, models, apiKey, nextSid, nextTurn, ui, settings>>

(* --------------------------- admin endpoints --------------------------- *)

\* A client calls DELETE /api/models/:id, which is registered with
\* isAuthenticated and isAdmin.
AdminBegin(p) ==
    /\ Accepts(p)
    /\ \E e \in {"deleteModel"}, h \in Headers :
         LET r == [IdleReq EXCEPT !.endpoint = e, !.turn = nextTurn,
                                  !.known = nextSid, !.header = h]
         IN req' = [req EXCEPT ![p] =
                      IF h \in {"none", "basic"}
                      THEN Respond(r, 401, ErrorBody("Unauthorized - No token provided"))
                      ELSE [r EXCEPT !.pc = "verify"]]
    /\ nextTurn' = nextTurn + 1
    /\ UNCHANGED <<users, models, apiKey, sessions, messages, nextSid, ui, settings>>

\* The isAdmin middleware: the role of the caller's identity row decides.
isAdmin(p) ==
    LET r == req[p] IN
    /\ \E e \in AdminOnly : Resumes(p, e, "isAdmin")
    /\ req' = [req EXCEPT ![p] =
                 IF r.user = NoUser
                 THEN Respond(r, 401, ErrorBody("Unauthorized"))
                 ELSE IF \A row \in getUser(r.user) : row.role # "admin"
                 THEN Respond(r, 403, ErrorBody("Admin access required"))
                 ELSE Logged([r EXCEPT !.pc = "handler"], "next")]
    /\ UNCHANGED <<users, models, apiKey, sessions, messages, nextSid, nextTurn, ui, settings>>

\* The session rows after modelId is set to null where it is mid.
NullModel(mid) ==
    {IF s.modelId = mid THEN [s EXCEPT !.modelId = NoModel] ELSE s : s \in sessions}

\* chat_sessions.model_id references ai_models.id ON DELETE SET NULL: the
\* session rows left when the row of model mid is deleted.
ModelFkSetNull(mid) == NullModel(mid)

\* DeleteModelNullSessions deleting the sessions that reference the model,
\* and their messages, instead of setting their modelId to null.
DeleteModelDropSessions(p) ==
    /\ Resumes(p, "deleteModel", "handler")
    /\ \E mid \in ModelIds :
         /\ req' = [req EXCEPT ![p] =
                      Logged([req[p] EXCEPT !.modelId = mid, !.pc = "deleteRow"],
                             "nullSessions")]
         /\ sessions' = {s \in sessions : s.modelId # mid}
         /\ messages' = SelectSeq(messages,
                LAMBDA m : \E s \in sessions : s.id = m.sessionId /\ s.modelId # mid)
    /\ UNCHANGED <<users, models, apiKey, nextSid, nextTurn, ui, settings>>

\* DELETE /api/models/:id, the first statement of deleteAiModel:
\* UPDATE chat_sessions SET model_id = NULL WHERE model_id = id
\* (known: the session ids handed out before the update ran).
DeleteModelNullSessions(p) ==
    /\ Resumes(p, "deleteModel", "handler")
    /\ \E mid \in ModelIds :
         /\ req' = [req EXCEPT ![p] =
                      Logged([req[p] EXCEPT !.modelId = mid, !.pc = "deleteRow",
                                            !.known = nextSid],
                             "nullSessions")]
         /\ sessions' = NullModel(mid)
    /\ UNCHANGED <<users, models, apiKey, messages, nextSid, nextTurn, ui, settings>>

\* DeleteModelRow leaving the sessions that reference the model as they are.
DeleteModelRowKeepsReferences(p) ==
    LET r == req[p] IN
    /\ Resumes(p, "deleteModel", "deleteRow")
    /\ models' = models \ {r.modelId}
    /\ req' = [req EXCEPT ![p] =
                 IF r.modelId \in models
                 THEN Respond(Logged(r, "deleteModel"), 200, [success |-> TRUE])
                 ELSE Respond(r, 404, ErrorBody("Model not found"))]
    /\ UNCHANGED <<users, apiKey, sessions, messages, nextSid, nextTurn, ui, settings>>

\* The second statement of deleteAiModel, DELETE FROM ai_models WHERE
\* id = id, and the answer of the handler.
DeleteModelRow(p) ==
    LET r == req[p] IN
    /\ Resumes(p, "deleteModel", "deleteRow")
    /\ models' = models \ {r.modelId}
    /\ sessions' = IF r.modelId \in models THEN ModelFkSetNull(r.modelId) ELSE sessions
    /\ req' = [req EXCEPT ![p] =
                 IF r.modelId \in models
                 THEN Respond(Logged(r, "deleteModel"), 200, [success |-> TRUE])
                 ELSE Respond(r, 404, ErrorBody("Model not found"))]
    /\ UNCHANGED <<users, apiKey, messages, nextSid, nextTurn, ui, settings>>

Next ==
    \E p \in Procs :
        \/ ChatBegin(p)
        \/ ChatAuth(p)
        \/ ChatResolve(p)
        \/ ChatCreateSession(p)
        \/ ChatSaveUser(p)
        \/ ChatHistory(p)
        \/ ChatProvider(p)
        \/ ChatSaveAssistant(p)
        \/ GuardedBegin(p)
        \/ isAuthenticated(p)
        \/ GetSessions(p)
        \/ GetSession(p)
        \/ GetSessionMessages(p)
        \/ DeleteSessionCheck(p)
        \/ DeleteSessionExec(p)
        \/ Retire(p)

Spec == Init /\ [][Next]_vars

\* The chat endpoint together with the deletion of models by an
\* administrator, their handlers interleaving.
AdminNext ==
    \E p \in Procs :
        \/ ChatBegin(p)
        \/ ChatAuth(p)
        \/ ChatResolve(p)
        \/ ChatCreateSession(p)
        \/ ChatSaveUser(p)
        \/ ChatHistory(p)
        \/ ChatProvider(p)
        \/ ChatSaveAssistant(p)
        \/ AdminBegin(p)
        \/ isAuthenticated(p)
        \/ isAdmin(p)
        \/ DeleteModelNullSessions(p)
        \/ DeleteModelRow(p)
        \/ Retire(p)

AdminSpec == Init /\ [][AdminNext]_vars

\* The requests arrive one after the other: a handler runs to its response
\* before the next request is taken.
Alone(p) == \A q \in Procs \ {p} : req[q].pc = "idle"

SeqNext ==
    \E p \in Procs :
        \/ Alone(p) /\ ChatBegin(p)
        \/ Alone(p) /\ ChatAuth(p)
        \/ Alone(p) /\ ChatResolve(p)
        \/ Alone(p) /\ ChatCreateSession(p)
        \/ Alone(p) /\ ChatSaveUser(p)
        \/ Alone(p) /\ ChatHistory(p)
        \/ Alone(p) /\ ChatProvider(p)
        \/ Alone(p) /\ ChatSaveAssistant(p)
        \/ Alone(p) /\ GuardedBegin(p)
        \/ Alone(p) /\ isAuthenticated(p)
        \/ Alone(p) /\ GetSessions(p)
        \/ Alone(p) /\ GetSession(p)
        \/ Alone(p) /\ GetSessionMessages(p)
        \/ Alone(p) /\ DeleteSessionCheck(p)
        \/ Alone(p) /\ DeleteSessionExec(p)
        \/ Alone(p) /\ Retire(p)

SeqSpec == Init /\ [][SeqNext]_vars

(* ------------------- session titles of long messages ------------------- *)

RECURSIVE Pad(_, _)
\* The text s filled up to n characters.
Pad(s, n) == IF Len(s) >= n THEN s ELSE Pad(s \o "x", n)

\* Messages shorter than the title limit, at the limit and beyond it.
TitleTexts ==
    {Pad(s, n) : s \in {"Hi", "Yo"},
                 n \in {2, TitleLen - 1, TitleLen, TitleLen + 1, TitleLen + 4}}

\* Two authenticated requests without sessionId have passed the checks of
\* the body; their messages are drawn from TitleTexts.
TitleInit ==
    /\ users = {AdminRow, [id |-> "u2", role |-> DefaultRole, email |-> TokenEmail("u2")]}
    /\ models = {"m1"}
    /\ apiKey = "sk-or"
    /\ sessions = {}
    /\ messages = <<>>
    /\ nextSid = 1
    /\ nextTurn = MaxRequests + 1
    /\ ui = UiIdle
    /\ settings = NoSettings
    /\ \E m1, m2 \in TitleTexts :
          req = [p \in Procs |->
                   Resolve([IdleReq EXCEPT !.endpoint = "chat", !.turn = p, !.known = 1,
                                           !.header = IF p = 1 THEN "u1" ELSE "u2",
                                           !.user = IF p = 1 THEN "u1" ELSE "u2",
                                           !.message = IF p = 1 THEN m1 ELSE m2,
                                           !.modelId = "m1"])]

TitleNext ==
    \E p \in Procs :
        \/ ChatCreateSession(p)
        \/ ChatSaveUser(p)
        \/ ChatHistory(p)
        \/ ChatProvider(p)
        \/ ChatSaveAssistant(p)
        \/ Retire(p)

TitleSpec == TitleInit /\ [][TitleNext]_vars

(* ---------------------- two tabs on one session ------------------------ *)

\* A session of user u1 exists; two requests that carry u1's token have been
\* received at the same time and are about to read their bodies, which may
\* name that session.
TabsInit ==
    /\ users = {[AdminRow EXCEPT !.email = TokenEmail("u1")]}
    /\ models = {"m1"}
    /\ apiKey = "sk-or"
    /\ sessions = {[id |-> 1, userId |-> "u1", title |-> "Hi", modelId |-> "m1"]}
    /\ messages = <<>>
    /\ nextSid = 2
    /\ nextTurn = MaxRequests + 1
    /\ ui = UiIdle
    /\ settings = NoSettings
    /\ req = [p \in Procs |->
                [IdleReq EXCEPT !.endpoint = "chat", !.pc = "resolve", !.turn = p,
                                !.known = 2, !.header = "u1", !.user = "u1"]]

TabsNext ==
    \E p \in Procs :
        \/ ChatResolve(p)
        \/ ChatCreateSession(p)
        \/ ChatSaveUser(p)
        \/ ChatHistory(p)
        \/ ChatProvider(p)
        \/ ChatSaveAssistant(p)
        \/ Retire(p)

TabsSpec == TabsInit /\ [][TabsNext]_vars

(* ------------------------------- roles --------------------------------- *)

\* The role values a client may put in the body ("root" is not a role).
RoleInputs == {"user", "admin", "root"}

\* The id of no identity row.
UnknownUser == "u9"

\* A client calls PUT /api/admin/users/:id/role.
RoleBegin(p) ==
    /\ Accepts(p)
    /\ \E h \in Headers :
         LET r == [IdleReq EXCEPT !.endpoint = "updateRole", !.turn = nextTurn,
                                  !.known = nextSid, !.header = h]
         IN req' = [req EXCEPT ![p] =
                      IF h \in {"none", "basic"}
                      THEN Respond(r, 401, ErrorBody("Unauthorized - No token provided"))
                      ELSE [r EXCEPT !.pc = "verify"]]
    /\ nextTurn' = nextTurn + 1
    /\ UNCHANGED <<users, models, apiKey, sessions, messages, nextSid, ui, settings>>

\* PUT /api/admin/users/:id/role, the handler: the role is validated, the
\* row is updated and returned.
RoleUpdate(p) ==
    LET r == req[p] IN
    /\ Resumes(p, "updateRole", "handler")
    /\ \E id \in UserIds \cup {UnknownUser}, role \in RoleInputs :
         IF role \notin {"user", "admin"}
         THEN /\ req' = [req EXCEPT ![p] = Respond(r, 400, ErrorBody("Invalid role"))]
              /\ UNCHANGED users
         ELSE /\ users' = updateUserRole(id, role)
              /\ req' = [req EXCEPT ![p] =
                           IF getUser(id) = {}
                           THEN Respond(r, 404, ErrorBody("User not found"))
                           ELSE Respond(Logged(r, "updateRole"), 200,
                                        [id |-> id, role |-> role])]
    /\ UNCHANGED <<models, apiKey, sessions, messages, nextSid, nextTurn, ui, settings>>

\* u1 is an administrator and u2 a user; both rows were written before the
\* emails changed at the identity provider.
RoleInit ==
    /\ users = {AdminRow, [id |-> "u2", role |-> DefaultRole, email |-> "u2@old"]}
    /\ models = {"m1"}
    /\ apiKey = "sk-or"
    /\ sessions = {}
    /\ messages = <<>>
    /\ nextSid = 1
    /\ nextTurn = 1
    /\ ui = UiIdle
    /\ settings = NoSettings
    /\ req = [p \in Procs |-> IdleReq]

RoleNext ==
    \E p \in Procs :
        \/ RoleBegin(p)
        \/ isAuthenticated(p)
        \/ isAdmin(p)
        \/ RoleUpdate(p)
        \/ Retire(p)

RoleSpec == RoleInit /\ [][RoleNext]_vars

(* ------------------------------ settings ------------------------------- *)

\* String.prototype.includes
Includes(s, sub) ==
    \E i \in 1..(Len(s) - Len(sub) + 1) : SubSeq(s, i, i + Len(sub) - 1) = sub

\* SELECT * FROM system_settings, in a store whose credential row holds
\* value v (apiKey, or NoSetting when it has no row).
SettingRows(v) ==
    {[key |-> CredentialKey, value |-> v] : x \in {v} \ {NoSetting}}
        \cup {[key |-> k, value |-> settings[k]] :
                 k \in {j \in SettingKeys : settings[j] # NoSetting}}

getSystemSettings == SettingRows(apiKey)

\* The settings of GET /api/settings with every value as stored.
SanitizedSettingsUnmasked(rows) == rows

\* settings.map(setting => ({...setting, value: setting.key.includes('key')
\* ? '****' : setting.value}))
SanitizedSettings(rows) ==
    {[row EXCEPT !.value = IF Includes(row.key, "key") THEN "****" ELSE @] : row \in rows}

\* settings.filter(setting => !setting.key.includes('key') &&
\* !setting.key.includes('secret')).reduce(...): an object from key to value
PublicSettings(rows) ==
    LET shown == {row \in rows : ~Includes(row.key, "key") /\ ~Includes(row.key, "secret")}
    IN [k \in {row.key : row \in shown} |-> (CHOOSE row \in shown : row.key = k).value]

\* A client calls GET /api/settings or POST /api/settings.
SettingsBegin(p) ==
    /\ Accepts(p)
    /\ \E e \in {"getSettings", "saveSetting"}, h \in Headers :
         LET r == [IdleReq EXCEPT !.endpoint = e, !.turn = nextTurn,
                                  !.known = nextSid, !.header = h]
         IN req' = [req EXCEPT ![p] =
                      IF h \in {"none", "basic"}
                      THEN Respond(r, 401, ErrorBody("Unauthorized - No token provided"))
                      ELSE [r EXCEPT !.pc = "verify"]]
    /\ nextTurn' = nextTurn + 1
    /\ UNCHANGED <<users, models, apiKey, sessions, messages, nextSid, ui, settings>>

\* GET /api/settings
GetSettings(p) ==
    /\ Resumes(p, "getSettings", "handler")
    /\ req' = [req EXCEPT ![p] =
                 Respond(req[p], 200, SanitizedSettings(getSystemSettings))]
    /\ UNCHANGED <<users, models, apiKey, sessions, messages, nextSid, nextTurn, ui, settings>>

\* POST /api/settings: a body the schema rejects is answered 400; otherwise
\* setSystemSetting inserts the row or updates its value, and the row is
\* returned.
SaveSetting(p) ==
    LET r == req[p] IN
    /\ Resumes(p, "saveSetting", "handler")
    /\ \E valid \in BOOLEAN, k \in {CredentialKey} \cup SettingKeys, v \in SettingTexts :
         IF ~valid
         THEN /\ req' = [req EXCEPT ![p] =
                           Respond(r, 400, ErrorBody("Failed to save setting"))]
              /\ UNCHANGED <<apiKey, settings>>
         ELSE /\ req' = [req EXCEPT ![p] =
                           Respond(Logged(r, "setSetting"), 200, [key |-> k, value |-> v])]
              /\ apiKey' = IF k = CredentialKey THEN v ELSE apiKey
              /\ settings' = IF k \in SettingKeys THEN [settings EXCEPT ![k] = v]
                                                   ELSE settings
    /\ UNCHANGED <<users, models, sessions, messages, nextSid, nextTurn, ui>>

\* A client calls GET /api/settings/public, which has no middleware.
PublicBegin(p) ==
    /\ Accepts(p)
    /\ req' = [req EXCEPT ![p] =
                 [IdleReq EXCEPT !.endpoint = "publicSettings", !.pc = "handler",
                                 !.turn = nextTurn, !.known = nextSid]]
    /\ nextTurn' = nextTurn + 1
    /\ UNCHANGED <<users, models, apiKey, sessions, messages, nextSid, ui, settings>>

\* GET /api/settings/public
GetPublicSettings(p) ==
    /\ Resumes(p, "publicSettings", "handler")
    /\ req' = [req EXCEPT ![p] =
                 Respond(req[p], 200, PublicSettings(getSystemSettings))]
    /\ UNCHANGED <<users, models, apiKey, sessions, messages, nextSid, nextTurn, ui, settings>>

\* Any settings are stored when the first request arrives.
SettingsInit ==
    /\ users = {AdminRow}
    /\ models = {"m1"}
    /\ apiKey \in SettingValues
    /\ settings \in [SettingKeys -> SettingValues]
    /\ sessions = {}
    /\ messages = <<>>
    /\ nextSid = 1
    /\ nextTurn = 1
    /\ ui = UiIdle
    /\ req = [p \in Procs |-> IdleReq]

SettingsNext ==
    \E p \in Procs :
        \/ SettingsBegin(p)
        \/ isAuthenticated(p)
        \/ isAdmin(p)
        \/ GetSettings(p)
        \/ SaveSetting(p)
        \/ PublicBegin(p)
        \/ GetPublicSettings(p)
        \/ Retire(p)

SettingsSpec == SettingsInit /\ [][SettingsNext]_vars

(* ------------------------- the chat interface -------------------------- *)

\* handleSendMessage and the mutationFn of sendMessageMutation, for a user
\* who is signed in as u1: nothing is sent while a send is pending; the body
\* carries the component's currentSession and isGuest: !isAuthenticated, and
\* apiRequest adds the stored token.
UiSend(p) ==
    /\ Accepts(p)
    /\ ~ui.isPending
    /\ req' = [req EXCEPT ![p] =
                 [IdleReq EXCEPT !.endpoint = "chat", !.pc = "auth",
                                 !.turn = nextTurn, !.known = nextSid, !.header = "u1",
                                 !.message = "Hi", !.modelId = "m1",
                                 !.sessionId = ui.currentSession, !.isGuest = FALSE]]
    /\ ui' = [ui EXCEPT !.isPending = TRUE]
    /\ nextTurn' = nextTurn + 1
    /\ UNCHANGED <<users, models, apiKey, sessions, messages, nextSid, settings>>

\* The handler reads the body the chat interface sent.
UiResolve(p) ==
    /\ Resumes(p, "chat", "resolve")
    /\ req' = [req EXCEPT ![p] = Resolve(req[p])]
    /\ UNCHANGED <<users, models, apiKey, sessions, messages, nextSid, nextTurn, ui, settings>>

\* onSuccess and onError of sendMessageMutation: a 2xx response with a
\* sessionId sets currentSession when it is null; an error response shows a
\* toast and leaves currentSession as it is.
UiSettled(p) ==
    LET r == req[p] IN
    /\ r.endpoint = "chat"
    /\ r.pc = "done"
    /\ ui' = [ui EXCEPT !.isPending = FALSE,
                        !.currentSession =
                            IF /\ r.status = 200
                               /\ r.body.sessionId # NoSession
                               /\ ui.currentSession = NoSession
                            THEN r.body.sessionId
                            ELSE @]
    /\ req' = [req EXCEPT ![p] = IdleReq]
    /\ UNCHANGED <<users, models, apiKey, sessions, messages, nextSid, nextTurn, settings>>

\* startNewChat
UiNewChat ==
    /\ ui.chats < MaxChats
    /\ ui' = [ui EXCEPT !.currentSession = NoSession, !.chats = @ + 1]
    /\ UNCHANGED <<users, models, apiKey, sessions, messages, nextSid, nextTurn, req, settings>>

UiNext ==
    \/ \E p \in Procs :
          \/ UiSend(p)
          \/ ChatAuth(p)
          \/ UiResolve(p)
          \/ ChatCreateSession(p)
          \/ ChatSaveUser(p)
          \/ ChatHistory(p)
          \/ ChatProvider(p)
          \/ ChatSaveAssistant(p)
          \/ UiSettled(p)
    \/ UiNewChat

UiSpec == Init /\ [][UiNext]_vars

(* ---------------------- two deletions of a session --------------------- *)

\* Session 1 of u1 holds one exchange; two DELETE /api/chat/sessions/:id
\* requests with a bearer token have been received.
DeleteInit ==
    /\ users = {[AdminRow EXCEPT !.email = TokenEmail("u1")]}
    /\ models = {"m1"}
    /\ apiKey = "sk-or"
    /\ sessions = {[id |-> 1, userId |-> "u1", title |-> "Hi", modelId |-> "m1"]}
    /\ messages = <<[sessionId |-> 1, role |-> "user", content |-> "Hi", turn |-> 0],
                    [sessionId |-> 1, role |-> "assistant", content |-> ReplyText, turn |-> 0]>>
    /\ nextSid = 2
    /\ nextTurn = MaxRequests + 1
    /\ ui = UiIdle
    /\ settings = NoSettings
    /\ \E h1, h2 \in Headers \ {"none", "basic"} :
          req = [p \in Procs |->
                   [IdleReq EXCEPT !.endpoint = "deleteSession", !.pc = "verify",
                                   !.turn = p, !.known = 2,
                                   !.header = IF p = 1 THEN h1 ELSE h2]]

DeleteNext ==
    \E p \in Procs :
        \/ isAuthenticated(p)
        \/ DeleteSessionCheck(p)
        \/ DeleteSessionExec(p)
        \/ Retire(p)

DeleteSpec == DeleteInit /\ [][DeleteNext]_vars

(* ------------------- chat requests run to their end -------------------- *)

\* Two chat requests have been received, with any header; no further
\* request arrives.
LiveInit ==
    /\ users = {AdminRow}
    /\ models = {"m1"}
    /\ apiKey \in SettingValues
    /\ sessions = {}
    /\ messages = <<>>
    /\ nextSid = 1
    /\ nextTurn = MaxRequests + 1
    /\ ui = UiIdle
    /\ settings = NoSettings
    /\ \E h1, h2 \in Headers \ {"basic"} :
          req = [p \in Procs |->
                   LET h == IF p = 1 THEN h1 ELSE h2 IN
                   [IdleReq EXCEPT !.endpoint = "chat",
                                   !.pc = IF h = "none" THEN "resolve" ELSE "auth",
                                   !.turn = p, !.known = 1, !.header = h]]

LiveNext ==
    \E p \in Procs :
        \/ ChatAuth(p)
        \/ ChatResolve(p)
        \/ ChatCreateSession(p)
        \/ ChatSaveUser(p)
        \/ ChatHistory(p)
        \/ ChatProvider(p)
        \/ ChatSaveAssistant(p)
        \/ Retire(p)

\* Every awaited call of a handler returns or throws in the end, and a
\* response that was handed to the connection is sent.
LiveFairness ==
    \A p \in Procs :
        /\ WF_vars(ChatAuth(p))
        /\ WF_vars(ChatResolve(p))
        /\ WF_vars(ChatCreateSession(p))
        /\ WF_vars(ChatSaveUser(p))
        /\ WF_vars(ChatHistory(p))
        /\ WF_vars(ChatProvider(p))
        /\ WF_vars(ChatSaveAssistant(p))
        /\ WF_vars(Retire(p))

LiveSpec == LiveInit /\ [][LiveNext]_vars /\ LiveFairness

(* ------------------------------ properties ---------------------------- *)

Range(f) == {f[i] : i \in DOMAIN f}

\* The rows request r has written or deleted, in order.
Writes(r) ==
    SelectSeq(r.log, LAMBDA e : e \in {"createSession", "appendUser",
                                       "appendAssistant", "deleteSession"})

\* The positions of the messages that the request of turn t stored with role ro.
TurnMessages(t, ro) ==
    {i \in 1..Len(messages) : messages[i].turn = t /\ messages[i].role = ro}

\* The api key setting holds a key.
KeyConfigured == apiKey \notin {NoSetting, ""}

\* Request r names a session that exists and belongs to someone else.
NotOwner(r) == \E s \in sessions : s.id = r.sessionId /\ s.userId # r.user

\* C1 (guest isolation): no step of a chat request that is flagged isGuest
\* or has no resolved identity changes the Session rows or the Message rows.
C1_GuestIsolation ==
    [][\A p \in Procs :
         (/\ req'[p] # req[p]
          /\ req'[p].endpoint = "chat"
          /\ req'[p].pc \notin {"auth", "resolve"}
          /\ (req'[p].isGuest \/ req'[p].user = NoUser))
         => (sessions' = sessions /\ messages' = messages)]_vars

\* C2 (context assembly): an authenticated, non-guest request against a
\* session that held the messages `prior` hands the provider exactly those
\* messages, in order, followed by the new user message once.
C2_ContextAssembly ==
    \A p \in Procs :
        (/\ req[p].endpoint = "chat"
         /\ req[p].pc = "provider"
         /\ Persists(req[p])
         /\ req[p].sessionId # NoSession)
        => req[p].context = Append(AsContext(req[p].prior), UserTurn(req[p]))

\* C3 (partial-failure durability): when the provider call of a request that
\* stored its user message fails, the response is 500, the step deletes and
\* stores nothing, the turn has no assistant message, and its user message
\* is still stored (unless its session was deleted by its owner meanwhile).
C3_PartialFailure ==
    [][\A p \in Procs :
         (/\ req[p].endpoint = "chat"
          /\ req[p].pc = "provider"
          /\ "appendUser" \in Range(req[p].log)
          /\ req'[p].pc = "done"
          /\ req'[p].outcome # "ok")
         => (/\ req'[p].status = 500
             /\ sessions' = sessions
             /\ messages' = messages
             /\ "appendAssistant" \notin Range(req'[p].log)
             /\ (TurnMessages(req[p].turn, "assistant"))' = {}
             /\ (req[p].chatSessionId \in SessionRows
                   => (TurnMessages(req[p].turn, "user"))' # {}))]_vars

C3_Witness ==
    \E p \in Procs :
        /\ req[p].endpoint = "chat" /\ req[p].pc = "done"
        /\ req[p].outcome \in {"httpError", "empty", "network"}
        /\ req[p].log = <<"createSession", "appendUser", "provider">>
        /\ req[p].status = 500
        /\ req[p].chatSessionId \in SessionRows
        /\ TurnMessages(req[p].turn, "user") # {}

C5_OwnershipOnSend ==
    \A p \in Procs :
        (/\ req[p].endpoint = "chat" /\ req[p].pc = "done"
         /\ req[p].message # "" /\ req[p].modelId \in models /\ KeyConfigured
         /\ Persists(req[p])
         /\ NotOwner(req[p]))
        => (req[p].status = 403 /\ Writes(req[p]) = <<>>)

\* C6 (new conversation): a chat request answered 200 on the persistence
\* branch without sessionId has created one session, owned by the caller,
\* stored one user and one assistant message in it and returns its id; a
\* request with a sessionId, and a guest request, creates no session.
C6_NewConversation ==
    \A p \in Procs :
        LET r == req[p] IN
        (r.endpoint = "chat" /\ r.pc = "done") =>
            /\ (r.status = 200 /\ Persists(r) /\ r.sessionId = NoSession) =>
                  /\ r.log = <<"createSession", "appendUser", "provider", "appendAssistant">>
                  /\ r.chatSessionId \notin KnownIds(r)
                  /\ r.body.sessionId = r.chatSessionId
                  /\ \E s \in sessions : s.id = r.chatSessionId /\ s.userId = r.user
                  /\ Cardinality(TurnMessages(r.turn, "user")) = 1
                  /\ Cardinality(TurnMessages(r.turn, "assistant")) = 1
                  /\ \A i \in 1..Len(messages) :
                        messages[i].turn = r.turn => messages[i].sessionId = r.chatSessionId
            /\ (r.sessionId # NoSession \/ ~Persists(r)) =>
                  "createSession" \notin Range(r.log)

C6_Witness ==
    \E p \in Procs :
        /\ req[p].endpoint = "chat" /\ req[p].pc = "done" /\ req[p].status = 200
        /\ Persists(req[p]) /\ req[p].sessionId = NoSession
        /\ req[p].body.sessionId \in SessionRows

\* C7 (read/delete access control): the handlers of GET session, GET
\* messages and DELETE session answer a caller who does not own the existing
\* session with 403 and the error body only, and change nothing; the list
\* handler returns exactly the caller's sessions.
C7_ReadDeleteAccess ==
    [][\A p \in Procs :
         /\ (/\ req[p].endpoint \in {"getSession", "getMessages", "deleteSession"}
             /\ req[p].pc = "handler"
             /\ req'[p] # req[p]
             /\ NotOwner(req'[p]))
            => (/\ req'[p].pc = "done"
                /\ req'[p].status = 403
                /\ req'[p].body = ErrorBody("Access denied")
                /\ sessions' = sessions
                /\ messages' = messages)
         /\ (/\ req[p].endpoint = "listSessions"
             /\ req[p].pc = "handler"
             /\ req'[p] # req[p])
            => (/\ req'[p].status = 200
                /\ req'[p].body.sessions = {s \in sessions : s.userId = req[p].user}
                /\ sessions' = sessions)]_vars

C7_Witness ==
    \E p \in Procs :
        /\ req[p].endpoint = "getMessages" /\ req[p].pc = "done"
        /\ req[p].user # NoUser
        /\ NotOwner(req[p])
        /\ getMessagesBySessionId(req[p].sessionId) # <<>>
        /\ req[p].status = 403

\* C8 (bad token degrades to guest): a chat request whose token is rejected
\* or whose verification throws goes on without identity, is never answered
\* 401 and stores nothing.
C8_BadTokenAsGuest ==
    \A p \in Procs :
        (/\ req[p].endpoint = "chat"
         /\ req[p].header \in {"bad", "throws"}
         /\ req[p].pc # "auth")
        => (/\ req[p].user = NoUser
            /\ req[p].status # 401
            /\ Writes(req[p]) = <<>>)

\* C9 (identity-required endpoints fail closed): a request to a guarded
\* endpoint with no header, a non-bearer header or a rejected token is
\* answered 401, never reaches its handler and changes no row.
C9_FailClosed ==
    [][\A p \in Procs :
         (/\ req'[p] # req[p]
          /\ req'[p].endpoint \in Guarded
          /\ req'[p].header \in {"none", "basic", "bad"})
         => (/\ req'[p].pc \in {"verify", "done"}
             /\ (req'[p].pc = "done" => req'[p].status = 401)
             /\ req'[p].log = <<>>
             /\ users' = users
             /\ sessions' = sessions
             /\ messages' = messages)]_vars

C9_Witness ==
    \E p \in Procs :
        /\ req[p].endpoint \in Guarded /\ req[p].pc = "done"
        /\ req[p].header = "bad"
        /\ req[p].status = 401
        /\ sessions # {}

\* C10 as claimed (model not found): a chat request whose modelId names no
\* model row, the key being configured, is answered 404 at once, with no
\* provider call and no row written.
C10_ModelNotFoundAnyBody ==
    [][\A p \in Procs :
         (/\ req[p].endpoint = "chat" /\ req[p].pc = "resolve"
          /\ req'[p] # req[p]
          /\ req'[p].modelId \notin models
          /\ KeyConfigured)
         => (/\ req'[p].pc = "done"
             /\ req'[p].status = 404
             /\ req'[p].log = <<>>
             /\ sessions' = sessions
             /\ messages' = messages)]_vars

\* C10 as amended: the same for a request that carries a message and a
\* modelId.
C10_ModelNotFound ==
    [][\A p \in Procs :
         (/\ req[p].endpoint = "chat" /\ req[p].pc = "resolve"
          /\ req'[p] # req[p]
          /\ req'[p].message # ""
          /\ req'[p].modelId # NoModel
          /\ req'[p].modelId \notin models
          /\ KeyConfigured)
         => (/\ req'[p].pc = "done"
             /\ req'[p].status = 404
             /\ req'[p].log = <<>>
             /\ sessions' = sessions
             /\ messages' = messages)]_vars

C10_Witness ==
    \E p \in Procs :
        /\ req[p].endpoint = "chat" /\ req[p].pc = "done"
        /\ req[p].user # NoUser /\ ~req[p].isGuest
        /\ req[p].message # "" /\ req[p].modelId \notin models
        /\ KeyConfigured
        /\ req[p].status = 404

\* C11 as claimed (misconfigured provider): with the api key setting absent
\* or empty, a chat request is answered 500 without having called the
\* provider or written a session or a message, whatever its body and
\* identity.
C11_MisconfiguredAnyBody ==
    \A p \in Procs :
        (/\ req[p].endpoint = "chat" /\ req[p].pc = "done"
         /\ ~KeyConfigured)
        => (/\ req[p].status = 500
            /\ req[p].log = <<>>)

\* C11 as amended: the same for a request that carries a message and a
\* modelId, whether or not the modelId names a model row, and whoever the
\* caller is; no request gets past that answer.
C11_Misconfigured ==
    \A p \in Procs :
        (req[p].endpoint = "chat" /\ ~KeyConfigured) =>
            /\ req[p].pc \in {"auth", "resolve", "done"}
            /\ req[p].log = <<>>
            /\ TurnMessages(req[p].turn, "user") = {}
            /\ TurnMessages(req[p].turn, "assistant") = {}
            /\ (req[p].pc = "done" /\ req[p].message # "" /\ req[p].modelId # NoModel) =>
                  (/\ req[p].status = 500
                   /\ req[p].body = ErrorBody("OpenRouter API key not configured"))

C11_Witness ==
    \E p \in Procs :
        /\ req[p].endpoint = "chat" /\ req[p].pc = "done"
        /\ req[p].user # NoUser /\ ~req[p].isGuest
        /\ req[p].message # "" /\ req[p].modelId \in models
        /\ apiKey = ""
        /\ req[p].status = 500

\* C12 (model deletion tolerance): each statement of a model deletion keeps
\* every message and every session row, changes no session field but
\* modelId, sets modelId to null on exactly the sessions that referenced the
\* model, and a deletion answered 200 removes that model row and no other.
C12_ModelDeletion ==
    [][\A p \in Procs :
         (/\ req[p].endpoint = "deleteModel"
          /\ req[p].pc \in {"handler", "deleteRow"}
          /\ req'[p] # req[p])
         => LET mid == req'[p].modelId IN
            /\ messages' = messages
            /\ Cardinality(sessions') = Cardinality(sessions)
            /\ \A s \in sessions :
                  \E t \in sessions' :
                     /\ t.id = s.id /\ t.userId = s.userId /\ t.title = s.title
                     /\ t.modelId = IF s.modelId = mid THEN NoModel ELSE s.modelId
            /\ (req'[p].pc = "done" /\ req'[p].status = 200) =>
                  (mid \in models /\ models' = models \ {mid})
            /\ (req'[p].pc = "done" /\ req'[p].status # 200) => models' = models]_vars

C12_Witness ==
    \E p \in Procs :
        /\ req[p].endpoint = "deleteModel" /\ req[p].pc = "done" /\ req[p].status = 200
        /\ req[p].modelId \notin models
        /\ \E s \in sessions :
              s.modelId = NoModel /\ Len(getMessagesBySessionId(s.id)) = 2

\* C13 (idempotent identity upsert): no two identity rows share an id; a
\* request that passed isAuthenticated carries the id of its token, that id
\* has exactly one row, which holds the profile of the token, and verifying
\* the token once more would leave the identity rows as they are.
C13_IdempotentUpsert ==
    /\ \A r1, r2 \in users : r1.id = r2.id => r1 = r2
    /\ \A p \in Procs :
          (req[p].endpoint \in Guarded /\ "next" \in Range(req[p].log)) =>
              /\ req[p].user = TokenUser(req[p].header)
              /\ Cardinality(getUser(req[p].user)) = 1
              /\ \A row \in getUser(req[p].user) : row.email = TokenEmail(req[p].user)
              /\ upsertUser(UserData(req[p].user)) = users

C13_Witness ==
    /\ \A p \in Procs :
          /\ req[p].endpoint \in Guarded
          /\ req[p].header = "u2"
          /\ "next" \in Range(req[p].log)
    /\ Cardinality(getUser("u2")) = 1
    /\ Cardinality(users) = 2

\* The last entry of a request's log.
LastLogged(r) == IF r.log = <<>> THEN "none" ELSE r.log[Len(r.log)]

\* C14 (no partial success): a chat request has sent one response when its
\* handler has ended and none before; the response is 200 with content,
\* sessionId and tokenCount, or an error status with a message; it is 200
\* only if the provider call succeeded and every write of the request's
\* branch was made, the assistant message last.
C14_NoPartialSuccess ==
    \A p \in Procs :
        LET r == req[p] IN
        r.endpoint = "chat" =>
            /\ r.sent = IF r.pc = "done" THEN 1 ELSE 0
            /\ r.pc = "done" =>
                  \/ /\ r.status = 200
                     /\ DOMAIN r.body = {"content", "sessionId", "tokenCount"}
                     /\ r.outcome = "ok"
                     /\ "provider" \in Range(r.log)
                     /\ SavesAssistant(r) => LastLogged(r) = "appendAssistant"
                     /\ Persists(r) =>
                           /\ "appendUser" \in Range(r.log)
                           /\ LastLogged(r) = "appendAssistant"
                           /\ r.sessionId = NoSession => "createSession" \in Range(r.log)
                  \/ /\ r.status \in {400, 404, 500}
                     /\ DOMAIN r.body = {"message"}

C14_Witness ==
    \E p \in Procs :
        /\ req[p].endpoint = "chat" /\ req[p].pc = "done"
        /\ req[p].status = 500
        /\ req[p].outcome = "ok"
        /\ "appendUser" \in Range(req[p].log)
        /\ "appendAssistant" \notin Range(req[p].log)

\* C15 (guest response carries no session): a chat request that is flagged
\* isGuest or has no resolved identity and is answered 200 does not return
\* the id of a stored session.
C15_GuestNoSession ==
    \A p \in Procs :
        (/\ req[p].endpoint = "chat" /\ req[p].pc = "done"
         /\ req[p].status = 200
         /\ (req[p].isGuest \/ req[p].user = NoUser))
        => req[p].body.sessionId \notin SessionRows

\* Every message belongs to a session that has a row.
NoOrphans == \A i \in 1..Len(messages) : messages[i].sessionId \in SessionRows

C17_TitleDerivation ==
    /\ \A p \in Procs :
          "createSession" \in Range(req[p].log) =>
              \E s \in sessions :
                  /\ s.id = req[p].chatSessionId
                  /\ s.title = IF Len(req[p].message) <= 50
                               THEN req[p].message
                               ELSE SubSeq(req[p].message, 1, 50) \o "..."
    /\ \A s, t \in sessions :
          LET ms == getMessagesBySessionId(s.id)
              mt == getMessagesBySessionId(t.id)
          IN (ms # <<>> /\ mt # <<>>) =>
                /\ SubSeq(s.title, 1, 2) = SubSeq(ms[1].content, 1, 2)
                /\ Len(s.title) = IF Len(ms[1].content) <= 50 THEN Len(ms[1].content) ELSE 53
                /\ ms[1].content = mt[1].content => s.title = t.title

C17_Witness ==
    \E s, t \in sessions :
        /\ Len(s.title) = 53 /\ SubSeq(s.title, 51, 53) = "..."
        /\ getMessagesBySessionId(t.id) # <<>>
        /\ Len(getMessagesBySessionId(t.id)[1].content) = 50
        /\ t.title = getMessagesBySessionId(t.id)[1].content

IsPrefix(a, b) == Len(a) <= Len(b) /\ SubSeq(b, 1, Len(a)) = a

\* C18 (write ordering): what an authenticated, non-guest chat request has
\* done so far is a beginning of: create the session (only without
\* sessionId), append the user message, call the provider, append the
\* assistant message; the assistant message is appended only after the
\* provider call succeeded.
C18_WriteOrdering ==
    \A p \in Procs :
        LET r == req[p] IN
        (r.endpoint = "chat" /\ r.pc \notin {"auth", "resolve"} /\ Persists(r)) =>
            /\ IsPrefix(r.log,
                        IF r.sessionId = NoSession
                        THEN <<"createSession", "appendUser", "provider", "appendAssistant">>
                        ELSE <<"appendUser", "provider", "appendAssistant">>)
            /\ r.pc \in {"provider", "saveAssistant"} => "appendUser" \in Range(r.log)
            /\ (r.pc = "saveAssistant" \/ "appendAssistant" \in Range(r.log)) =>
                  r.outcome = "ok"
            /\ r.outcome # "none" => "provider" \in Range(r.log)

C18_Witness ==
    \E p \in Procs :
        /\ req[p].endpoint = "chat" /\ req[p].pc = "done" /\ req[p].status = 200
        /\ Persists(req[p])
        /\ req[p].sessionId # NoSession
        /\ req[p].log = <<"appendUser", "provider", "appendAssistant">>

\* C19 (the guest/identity branch is decided once): a chat request stores
\* an assistant message only on the branch on which it stored its user
\* message: not flagged isGuest and with a resolved identity.
C19_BranchDecidedOnce ==
    \A p \in Procs :
        (req[p].endpoint = "chat" /\ "appendAssistant" \in Range(req[p].log)) =>
            /\ Persists(req[p])
            /\ "appendUser" \in Range(req[p].log)

\* C20 (append-only ledger): a step either keeps every stored message, in
\* order, and at most appends to them, or it is the deletion of a session by
\* DELETE /api/chat/sessions/:id and removes exactly the messages of that
\* session; so the messages a session had before a step of a chat request
\* are a beginning of those it has after it.
C20_AppendOnly ==
    [][\/ /\ IsPrefix(messages, messages')
          /\ \A sid \in SessionIds :
                IsPrefix(getMessagesBySessionId(sid), (getMessagesBySessionId(sid))')
       \/ \E p \in Procs :
             /\ req[p].endpoint = "deleteSession" /\ req[p].pc = "delete"
             /\ req'[p].pc = "done"
             /\ req[p].sessionId \notin {s.id : s \in sessions'}
             /\ messages' = SelectSeq(messages, LAMBDA m : m.sessionId # req[p].sessionId)]_vars

C20_Witness ==
    \E p \in Procs :
        /\ req[p].endpoint = "chat" /\ req[p].pc = "done" /\ req[p].status = 200
        /\ req[p].sessionId # NoSession
        /\ "appendUser" \in Range(req[p].log)
        /\ req[p].prior # <<>>
        /\ Len(getMessagesBySessionId(req[p].sessionId)) = Len(req[p].prior) + 2
        /\ IsPrefix(req[p].prior, getMessagesBySessionId(req[p].sessionId))

\* Request r is a non-guest request of the owner of the existing session it
\* names.
OwnerSend(r) ==
    /\ r.endpoint = "chat" /\ r.pc \notin {"auth", "resolve"}
    /\ Persists(r)
    /\ \E s \in sessions : s.id = r.sessionId /\ s.userId = r.user

\* C21 (concurrent sends to one session): of two overlapping requests of the
\* owner against one session, each has stored exactly one user message once
\* it logged the insert, at most one assistant message, exactly one once it
\* logged that insert, its user message before its assistant message, all in
\* that session; no two stored messages are the same message of the same
\* request, and no step removes or reorders stored messages.
C21_ConcurrentSends ==
    /\ [](\A p \in Procs :
            OwnerSend(req[p]) =>
                LET r == req[p]
                    us == TurnMessages(r.turn, "user")
                    as == TurnMessages(r.turn, "assistant")
                IN
                /\ Cardinality(us) = IF "appendUser" \in Range(r.log) THEN 1 ELSE 0
                /\ Cardinality(as) = IF "appendAssistant" \in Range(r.log) THEN 1 ELSE 0
                /\ as # {} => us # {}
                /\ \A i \in us, j \in as : i < j
                /\ \A i \in us \cup as : messages[i].sessionId = r.sessionId)
    /\ [](\A i, j \in 1..Len(messages) :
            (messages[i].turn = messages[j].turn /\ messages[i].role = messages[j].role)
                => i = j)
    /\ [][Len(messages) <= Len(messages') /\ SubSeq(messages', 1, Len(messages)) = messages]_vars

C21_Witness ==
    /\ Len(messages) = 4
    /\ \A i \in 1..4 : messages[i].sessionId = 1
    /\ messages[1].role = "user" /\ messages[2].role = "user"
    /\ messages[1].turn # messages[2].turn
    /\ messages[3].role = "assistant" /\ messages[4].role = "assistant"
    /\ messages[3].turn = messages[2].turn

\* C22 (model reference integrity under interleaving): the modelId of every
\* session is null or names a model row, also when a chat request creates a
\* session between the two statements of a model deletion or after them.
C22_ModelReferences ==
    \A s \in sessions : s.modelId = NoModel \/ s.modelId \in models

C22_Witness ==
    \E p \in Procs :
        /\ req[p].endpoint = "deleteModel" /\ req[p].pc = "done" /\ req[p].status = 200
        /\ \E s \in sessions : s.id >= req[p].known /\ s.modelId = NoModel

\* The number of provider calls request r has issued.
ProviderCalls(r) == Len(SelectSeq(r.log, LAMBDA e : e = "provider"))

\* C23 (single provider call, no retry): a chat request has issued at most
\* one provider call; none when it was answered 400 or 404, none when it was
\* answered 500 for the missing key or for a failed insert of the session or
\* of the user message; exactly one once the provider has answered.
C23_SingleProviderCall ==
    \A p \in Procs :
        LET r == req[p] IN
        r.endpoint = "chat" =>
            /\ ProviderCalls(r) <= 1
            /\ r.pc \in {"auth", "resolve", "createSession", "saveUser", "history"} =>
                  ProviderCalls(r) = 0
            /\ (r.pc = "done" /\ r.status \in {400, 404}) => ProviderCalls(r) = 0
            /\ (r.pc = "done" /\ r.status = 500 /\ ~KeyConfigured) => ProviderCalls(r) = 0
            /\ (r.pc = "done" /\ Persists(r) /\ "appendUser" \notin Range(r.log)) =>
                  ProviderCalls(r) = 0
            /\ r.outcome # "none" => ProviderCalls(r) = 1

C23_Witness ==
    \E p \in Procs :
        /\ req[p].endpoint = "chat" /\ req[p].pc = "done" /\ req[p].status = 500
        /\ req[p].outcome = "network"
        /\ ProviderCalls(req[p]) = 1
        /\ "appendUser" \in Range(req[p].log)

\* C24 (an empty provider response is a failure): a chat request whose
\* provider call returned HTTP success without choices is answered 500 with
\* an error message and stores no assistant message.
C24_EmptyResponseFails ==
    \A p \in Procs :
        (req[p].endpoint = "chat" /\ req[p].outcome = "empty") =>
            /\ req[p].pc = "done"
            /\ req[p].status = 500
            /\ req[p].body = ErrorBody("Failed to process message")
            /\ "appendAssistant" \notin Range(req[p].log)
            /\ TurnMessages(req[p].turn, "assistant") = {}

C24_Witness ==
    \E p \in Procs :
        /\ req[p].endpoint = "chat" /\ req[p].pc = "done"
        /\ req[p].outcome = "empty"
        /\ SavesAssistant(req[p]) /\ Persists(req[p])
        /\ TurnMessages(req[p].turn, "user") # {}
        /\ req[p].status = 500

\* C25 (every request reaches its response): with every awaited call
\* returning or throwing in the end, a chat request, whatever step it fails
\* or succeeds at, sends a response, and it never sends a second one.
C25_EveryRequestResponds ==
    /\ \A p \in Procs :
          [](req[p].endpoint = "chat" => <>(req[p].pc = "done" /\ req[p].sent = 1))
    /\ [](\A p \in Procs : req[p].sent <= 1)
    /\ [][\A p \in Procs : req[p].sent = 1 => req'[p].sent \in {0, 1}]_vars

C25_Witness ==
    \E p, q \in Procs :
        /\ req[p].endpoint = "chat" /\ req[p].pc = "done" /\ req[p].sent = 1
        /\ req[p].status = 500
        /\ req[p].log = <<"createSession", "appendUser", "provider">>
        /\ req[q].endpoint = "chat" /\ req[q].pc = "saveAssistant"

\* C26 (guest context contains no stored history): the message list a
\* guest-flagged or unidentified request hands to the provider is exactly the
\* single new user message, whatever sessionId its body names.
C26_GuestContextIsNewMessage ==
    \A p \in Procs :
        (/\ req[p].endpoint = "chat"
         /\ "provider" \in Range(req[p].log)
         /\ (req[p].isGuest \/ req[p].user = NoUser))
        => req[p].context = <<UserTurn(req[p])>>

\* C27 (deleting a missing session): DELETE /api/chat/sessions/:id for an id
\* without a row is answered 403; 404 is answered only by a request that
\* passed the ownership check and finds the row removed since; of two
\* deletions that both passed the check, the first removes the session and
\* its messages and is answered 200, the second removes nothing and is
\* answered 404; every removal of a session is answered by one 200.
C27_DeleteMissingSession ==
    /\ [][\A p \in Procs :
            (/\ req[p].endpoint = "deleteSession" /\ req[p].pc = "handler"
             /\ req'[p].pc # "handler"
             /\ req'[p].sessionId \notin SessionRows)
            => (req'[p].pc = "done" /\ req'[p].status = 403)]_vars
    /\ [][\A p \in Procs :
            (/\ req'[p].endpoint = "deleteSession"
             /\ req'[p].status = 404 /\ req[p].status # 404)
            => (/\ req[p].pc = "delete"
                /\ req[p].sessionId \in 1..(nextSid - 1)
                /\ req[p].sessionId \notin SessionRows
                /\ UNCHANGED <<sessions, messages>>)]_vars
    /\ [][\A p \in Procs :
            (/\ req[p].endpoint = "deleteSession" /\ req[p].pc = "delete"
             /\ req'[p].pc # "delete")
            => IF req[p].sessionId \in SessionRows
               THEN /\ req'[p].status = 200
                    /\ sessions' = {s \in sessions : s.id # req[p].sessionId}
                    /\ getMessagesBySessionId(req[p].sessionId)' = <<>>
               ELSE req'[p].status = 404]_vars
    /\ [][sessions' # sessions /\ sessions' \subseteq sessions
          => \E p \in Procs :
                /\ req[p].pc = "delete" /\ req'[p].status = 200
                /\ \A q \in Procs \ {p} : req'[q] = req[q]
                /\ {s.id : s \in sessions \ sessions'} = {req[p].sessionId}]_vars

C27_Witness ==
    \E p \in Procs :
        /\ req[p].endpoint = "deleteSession" /\ req[p].pc = "done"
        /\ req[p].status = 404 /\ req[p].user = "u1" /\ req[p].sessionId = 1
        /\ sessions = {} /\ messages = <<>>

\* C28 (one session per conversation of the chat interface): the sends a
\* signed-in user makes between two New Chat actions create at most one
\* session, so there are never more sessions than conversations started.
C28_OneSessionPerConversation == Cardinality(sessions) <= ui.chats

\* C29 (role preserved by verification): every identity has the role user
\* or admin; no identity row disappears; the upsert of a verification leaves
\* the role of every existing identity as it is; a role changes only in the
\* step of PUT /api/admin/users/:id/role that is answered 200 for that
\* identity, and to the role of its body.
C29_RolePreserved ==
    /\ [](\A row \in users : row.role \in {"user", "admin"})
    /\ [][\A row \in users : \E after \in users' :
            /\ after.id = row.id
            /\ (\E p \in Procs : req[p].pc = "verify" /\ req'[p] # req[p])
                   => after.role = row.role
            /\ after.role # row.role =>
                   \E p \in Procs :
                       /\ req[p].endpoint = "updateRole" /\ req[p].pc = "handler"
                       /\ req'[p].status = 200
                       /\ req'[p].body = [id |-> row.id, role |-> after.role]
                       /\ after.role \in {"user", "admin"}]_vars

C29_Witness ==
    \E p \in Procs :
        /\ req[p].endpoint = "updateRole" /\ req[p].header = "u2"
        /\ req[p].pc = "handler"
        /\ [id |-> "u2", role |-> "admin", email |-> TokenEmail("u2")] \in users
        /\ [id |-> "u1", role |-> "admin", email |-> TokenEmail("u1")] \in users

\* C30 (provider credential secrecy): in a response of GET /api/settings
\* the row of openrouter_api_key holds '****' in place of its value, and a
\* response of GET /api/settings/public has no entry for it; each response
\* is the one the same store would give with any other value in that row.
C30_CredentialSecrecy ==
    \A p \in Procs :
        (req[p].pc = "done" /\ req[p].status = 200) =>
            /\ req[p].endpoint = "getSettings" =>
                  /\ \A row \in req[p].body :
                        row.key = CredentialKey => row.value = "****"
                  /\ apiKey # NoSetting =>
                        \A v \in SettingTexts :
                            req[p].body = SanitizedSettings(SettingRows(v))
            /\ req[p].endpoint = "publicSettings" =>
                  /\ CredentialKey \notin DOMAIN req[p].body
                  /\ apiKey # NoSetting =>
                        \A v \in SettingTexts :
                            req[p].body = PublicSettings(SettingRows(v))

C30_Witness ==
    /\ apiKey = "sk-or"
    /\ settings["default_model"] = "sk-or"
    /\ settings["jwt_secret"] = ""
    /\ req[1].endpoint = "getSettings" /\ req[1].pc = "done" /\ req[1].status = 200
    /\ [key |-> CredentialKey, value |-> "****"] \in req[1].body
    /\ req[2].endpoint = "publicSettings" /\ req[2].pc = "handler"

====
